---- MODULE Spec2Model ----
(***************************************************************************)
(* RoadRPC (src/src/roadrpc/rpc.py): the JSON-RPC 2.0 server.              *)
(*                                                                         *)
(* The state is one RPCServer (its method registry and its middleware      *)
(* list) and one handle_json invocation at a time: the decoded input, the  *)
(* position in the batch loop, the responses collected so far and the      *)
(* value handle_json gave back, until its caller has taken it.             *)
(* RPCServer.call is modelled stage by                                     *)
(* stage (before hooks, lookup, handler, on_error hooks, after hooks,      *)
(* notification check); handlers and the hooks of user middleware are      *)
(* code outside the repository, so each of their invocations draws its     *)
(* outcome from the outcomes Python allows (return, raise RPCError, raise  *)
(* another exception).                                                     *)
(*                                                                         *)
(* Further specifications share that state: SpecRegistry (the registry     *)
(* under a logged sequence of operations), SpecLock (threads on one server  *)
(* and its _lock), SpecClient and SpecExchange (threads on one RPCClient,   *)
(* its id counter and its transport), SpecPipeline (coroutines running     *)
(* call, suspended at each await), SpecAuth (a server with AuthMiddleware)  *)
(* and SpecManager (RPCManager's services).                                 *)
(*                                                                         *)
(* Python values: None of a string-typed field is the string "None"; None  *)
(* of an object-typed field (a Response, an error dict) is Nil.  A dict is *)
(* a function whose DOMAIN is its key set.  An error message built with an *)
(* f-string is the tuple of its parts.                                     *)
(***************************************************************************)
EXTENDS Integers, Sequences, FiniteSets, TLC

VARIABLES
    methods,      \* RPCServer.methods: the dict name -> RPCMethod
    middleware,   \* RPCServer.middleware: the hook objects, in registration order
    phase,        \* handle_json: "idle", "batch" (inside the batch loop), "done"
    input,        \* what json.loads gave for the current handle_json
    idx,          \* batch loop: 1-based position of the next element
    request,      \* handle_json's local `request`: the element decoded last
    response,     \* handle_json's local `response`: what call returned for it
    responses,    \* batch loop: the list `responses`
    output,       \* what handle_json returned (or that it raised)
    calls,        \* how many times this handle_json has invoked RPCServer.call
    call,         \* the run of RPCServer.call made for a single (non-batch) request
    log,          \* the register / unregister / lookup operations made so far, with
                  \* what each returned
    lock,         \* RPCServer._lock: 0 when free, else the thread that holds it
    threads,      \* each thread using the server: the operation it runs, where it
                  \* is in it, and what it got
    id_counter,   \* RPCClient._id_counter
    clientLock,   \* RPCClient._lock: 0 when free, else the thread that holds it
    callers,      \* each thread using the client: the method it runs (call, notify,
                  \* batch), where it is in it, its locals
    issued,       \* the values _next_id has returned, in the order it returned them
    tasks,        \* each coroutine running RPCServer.call: where it is suspended,
                  \* its loop index, its locals and what it has invoked so far
    services,     \* RPCManager._services: the dict prefix -> service
    returned      \* the last call made on the RPCManager: what it was given, the
                  \* registry it found, what it returned

\* the server and the handle_json invocation in progress
server == <<methods, middleware, phase, input, idx, request, response, responses,
            output, calls, call>>

\* the history of registry operations
history == <<log>>

\* the threads that share the server
locking == <<lock, threads>>

\* one RPCClient and the threads that share it
client == <<id_counter, clientLock, callers, issued>>

\* the coroutines that run call side by side
pipeline == <<tasks>>

\* the RPCManager around the server
manager == <<services, returned>>

vars == <<server, history, locking, client, pipeline, manager>>

(***************************** bounds ***************************************)
MaxMiddleware == 2
MaxBatch == 2
MaxThreads == 3
MaxClients == 2
MaxCalls == 2
MaxTasks == 2

(***************************** values ***************************************)
None == "None"
Nil == [nil |-> TRUE]

Names == {"add", "sub"}
Handlers == {"h1", "h2"}
Ids == {"1", "2"}
Absent == "ABSENT"
Threads == 1..MaxThreads
Clients == 1..MaxClients
Tasks == 1..MaxTasks

PARSE_ERROR == -32700
INVALID_REQUEST == -32600
METHOD_NOT_FOUND == -32601
INVALID_PARAMS == -32602
INTERNAL_ERROR == -32603
SERVER_ERROR == -32000
AUTH_REQUIRED == -32001
DIVISION_BY_ZERO == -32001

\* RPCError(code, message, data)
RPCError(code, message, data) == [code |-> code, message |-> message, data |-> data]

\* RPCError.to_dict: code and message, and data only when it is not None
ErrToDict(e) ==
    IF e.data # None
    THEN [code |-> e.code, message |-> e.message, data |-> e.data]
    ELSE [code |-> e.code, message |-> e.message]

\* dict.get(key, default)
Get(d, key, default) == IF key \in DOMAIN d THEN d[key] ELSE default

\* RPCRequest.from_dict; a missing params is the empty list
FromDict(data) ==
    [method  |-> Get(data, "method", ""),
     params  |-> Get(data, "params", "list"),
     id      |-> Get(data, "id", None),
     jsonrpc |-> Get(data, "jsonrpc", "2.0")]

\* RPCRequest.is_notification
IsNotification(req) == req.id = None

\* RPCResponse.success
Success(result, id) == [result |-> result, error |-> Nil, id |-> id, jsonrpc |-> "2.0"]

\* RPCResponse.failure
Failure(e, id) == [result |-> None, error |-> ErrToDict(e), id |-> id, jsonrpc |-> "2.0"]

\* Python truth of an Optional[Dict]: None and the empty dict are false
Truthy(d) == d # Nil /\ DOMAIN d # {}

\* RPCResponse.to_dict that writes result beside error
ToDictBoth(r) ==
    IF Truthy(r.error)
    THEN [jsonrpc |-> r.jsonrpc, id |-> r.id, error |-> r.error, result |-> r.result]
    ELSE [jsonrpc |-> r.jsonrpc, id |-> r.id, result |-> r.result]

\* RPCResponse.to_dict: jsonrpc and id always, error when it is truthy, else result
ToDict(r) ==
    IF Truthy(r.error)
    THEN [jsonrpc |-> r.jsonrpc, id |-> r.id, error |-> r.error]
    ELSE [jsonrpc |-> r.jsonrpc, id |-> r.id, result |-> r.result]

(***************************** middleware **********************************)
\* "Logging": LoggingMiddleware, whose hooks log and hand their argument back
\* (on_error is the inherited default).  "User": a subclass of RPCMiddleware
\* written by the host application; its hooks may do whatever Python allows.
\* "Auth": AuthMiddleware, which overrides before_call only.
MiddlewareKinds == {"Logging", "User"}

DenyErrors ==
    {RPCError(AUTH_REQUIRED, <<"Authentication required">>, None),
     RPCError(AUTH_REQUIRED, <<"Authentication required">>, "realm")}

\* The id a rewriting before_call gives the request it returns: another id, no
\* id where there was one, an id where there was none
RewriteId(id) == CASE id = "1" -> "2" [] id = "2" -> None [] OTHER -> "1"

\* The validator an AuthMiddleware is built with: it accepts one token
Validator(token) == token = "good"

\* AuthMiddleware.before_call, lines 170-177.  request.metadata is an attribute
\* RPCRequest does not declare: reading it raises AttributeError unless the
\* caller of call has set it on the object.  An empty token is false.
AuthBeforeCall(req) ==
    IF "metadata" \notin DOMAIN req
    THEN {[kind |-> "exception",
           message |-> <<"'RPCRequest' object has no attribute 'metadata'">>]}
    ELSE LET token == Get(req.metadata, "auth_token", None)
         IN IF token \in {None, ""} \/ ~Validator(token)
            THEN {[kind |-> "rpcerror",
                   error |-> RPCError(AUTH_REQUIRED, <<"Authentication required">>, None)]}
            ELSE {[kind |-> "return", request |-> req]}

\* before_call(request): the request handed on (the one received, or another
\* object), or the exception raised
BeforeCall(mw, req) ==
    CASE mw = "Logging" -> {[kind |-> "return", request |-> req]}
      [] mw = "Auth" -> AuthBeforeCall(req)
      [] OTHER ->
         {[kind |-> "return", request |-> req],
          [kind |-> "return", request |-> [req EXCEPT !.id = RewriteId(req.id)]]}
         \cup {[kind |-> "rpcerror", error |-> e] : e \in DenyErrors}
         \cup {[kind |-> "exception", message |-> <<"before failed">>]}

\* after_call(request, response): the response handed on, or an exception
AfterCall(mw, req, resp) ==
    IF mw \in {"Logging", "Auth"}
    THEN {[kind |-> "return", response |-> resp]}
    ELSE {[kind |-> "return", response |-> resp],
          [kind |-> "return", response |-> [resp EXCEPT !.result = "stamped"]],
          [kind |-> "exception"]}

\* on_error(request, error): None, a substitute Response, or an exception
OnError(mw, req, message) ==
    IF mw \in {"Logging", "Auth"}
    THEN {[kind |-> "return", response |-> Nil]}
    ELSE {[kind |-> "return", response |-> Nil],
          [kind |-> "return",
           response |-> Failure(RPCError(SERVER_ERROR, <<"recovered">>, None), req.id)],
          [kind |-> "exception"]}

\* method.handler(...): what invoking a registered handler can do.  A TypeError
\* comes from binding the arguments ("bind") or from the handler's body ("body").
HandlerCall(handler, style) ==
    {[kind |-> "return", value |-> "ok"],
     [kind |-> "return", value |-> None],
     [kind |-> "rpcerror", error |-> RPCError(DIVISION_BY_ZERO, <<"Division by zero">>, None)],
     [kind |-> "typeerror", at |-> "bind", message |-> <<"missing argument">>],
     [kind |-> "typeerror", at |-> "body", message |-> <<"unsupported operand">>],
     [kind |-> "exception", message |-> <<"boom">>]}

(***************************** RPCServer.call *******************************)
\* One run of RPCServer.call: the request as passed in (orig), the variable
\* `request` (rebound by the before hooks), the variable `response`, the hook and
\* handler invocations in order (events), and how the call ended: exit is
\* "return" (ret is the value returned, Nil for None) or "raise" (an exception
\* left call).  `dispatched` is `response` as the after hooks found it, at
\* line 274.
NewCall(req) ==
    [orig |-> req, request |-> req, response |-> Nil, ret |-> Nil,
     exit |-> "running", stage |-> "before", events |-> <<>>,
     beforeError |-> Nil, lookup |-> "none", style |-> "none", handler |-> "none",
     dispatched |-> Nil]

\* The run after hook or handler `name` (the i-th middleware's) was invoked
Event(c, name, i) == [c EXCEPT !.events = Append(@, <<name, i>>)]

\* call returns resp at the given stage
Return(c, stage, resp) == [c EXCEPT !.exit = "return", !.stage = stage, !.ret = resp]

\* an exception raised at the given stage leaves call
Raise(c, stage) == [c EXCEPT !.exit = "raise", !.stage = stage]

\* lines 278-282: None for a notification, else the response
Finish(c) ==
    IF IsNotification(c.request)
    THEN Return(c, "done", Nil)
    ELSE Return(c, "done", c.response)

RECURSIVE AfterHooks(_, _)
\* lines 274-276: the after_call hooks from the i-th on, then the return
AfterHooks(c, i) ==
    LET d == IF i = 1 THEN [c EXCEPT !.dispatched = c.response] ELSE c
    IN IF i > Len(middleware)
       THEN {Finish(d)}
       ELSE UNION {
           IF o.kind = "return"
           THEN AfterHooks([Event(d, "after_call", i) EXCEPT !.response = o.response], i + 1)
           ELSE {Raise(Event(d, "after_call", i), "after")}
           : o \in AfterCall(middleware[i], d.request, d.response)}

RECURSIVE OnErrorHooks(_, _, _)
\* lines 261-272: the on_error hooks from the i-th on; the first truthy Response
\* wins, and with none the response is INTERNAL_ERROR with str(e)
OnErrorHooks(c, message, i) ==
    IF i > Len(middleware)
    THEN AfterHooks([c EXCEPT !.response =
                        Failure(RPCError(INTERNAL_ERROR, message, None), c.request.id)], 1)
    ELSE UNION {
        IF o.kind = "return"
        THEN IF o.response # Nil
             THEN AfterHooks([Event(c, "on_error", i) EXCEPT !.response = o.response], 1)
             ELSE OnErrorHooks(Event(c, "on_error", i), message, i + 1)
        ELSE {Raise(Event(c, "on_error", i), "on_error")}
        : o \in OnError(middleware[i], c.request, message)}

\* lines 242-247: how the handler is invoked for this params value
Style(params) ==
    IF params = "dict" THEN "kwargs" ELSE IF params = "list" THEN "args" ELSE "noargs"

\* lines 240-272: invoke the handler and turn its outcome into `response`
Execute(c, method) ==
    LET style == Style(c.request.params)
        d == [Event(c, "handler", 0) EXCEPT !.style = style]
    IN UNION {
        LET e == [d EXCEPT !.handler = IF o.kind = "typeerror" THEN o.at ELSE o.kind]
        IN CASE o.kind = "return" ->
                  AfterHooks([e EXCEPT !.response = Success(o.value, c.request.id)], 1)
             [] o.kind = "rpcerror" ->
                  AfterHooks([e EXCEPT !.response = Failure(o.error, c.request.id)], 1)
             [] o.kind = "typeerror" ->
                  AfterHooks([e EXCEPT !.response =
                      Failure(RPCError(INVALID_PARAMS, o.message, None), c.request.id)], 1)
             [] OTHER -> OnErrorHooks(e, o.message, 1)
        : o \in HandlerCall(method.handler, style)}

\* lines 234-238 answering INVALID_REQUEST
NotFoundInvalidRequest(c) ==
    Return([c EXCEPT !.lookup = "miss"], "lookup",
           Failure(RPCError(INVALID_REQUEST, <<"Method not found: ", c.request.method>>, None),
                   c.request.id))

\* lines 234-238: the failure returned when the registry has no such method
NotFound(c) ==
    Return([c EXCEPT !.lookup = "miss"], "lookup",
           Failure(RPCError(METHOD_NOT_FOUND, <<"Method not found: ", c.request.method>>, None),
                   c.request.id))

\* lines 232-272: self.methods.get(request.method), then the handler
Dispatch(c) ==
    IF c.request.method \in DOMAIN methods
    THEN Execute([c EXCEPT !.lookup = "hit"], methods[c.request.method])
    ELSE {NotFound(c)}

\* lines 224-225 keeping the failure in `response` and going on to the after hooks
BeforeFailedThenAfter(c, i, e) ==
    AfterHooks([Event(c, "before_call", i) EXCEPT
                    !.beforeError = e, !.response = Failure(e, c.request.id)], 1)

\* lines 224-225: a before_call raised RPCError, and call returns the failure
BeforeFailed(c, i, e) ==
    {Return([Event(c, "before_call", i) EXCEPT !.beforeError = e],
            "before", Failure(e, c.request.id))}

RECURSIVE BeforeHooks(_, _)
\* lines 221-230: the before_call hooks from the i-th on, each rebinding
\* `request`; an exception ends the call with a failure Response
BeforeHooks(c, i) ==
    IF i > Len(middleware)
    THEN Dispatch(c)
    ELSE UNION {
        CASE o.kind = "return" ->
                 BeforeHooks([Event(c, "before_call", i) EXCEPT !.request = o.request], i + 1)
          [] o.kind = "rpcerror" -> BeforeFailed(c, i, o.error)
          [] OTHER ->
                 {Return(Event(c, "before_call", i), "before",
                         Failure(RPCError(INTERNAL_ERROR, o.message, None), c.request.id))}
        : o \in BeforeCall(middleware[i], c.request)}

\* RPCServer.call(request): every way the call can end
Call(req) == BeforeHooks(NewCall(req), 1)

(***************************** JSON input ***********************************)
\* A decoded JSON object that may be a request: each of method, params and id is
\* there or not; params is a list, a dict or another JSON value; id may be null.
Object(m, p, i) ==
    [k \in {"jsonrpc"} \cup (IF m = Absent THEN {} ELSE {"method"})
                       \cup (IF p = Absent THEN {} ELSE {"params"})
                       \cup (IF i = Absent THEN {} ELSE {"id"}) |->
        CASE k = "jsonrpc" -> "2.0"
          [] k = "method" -> m
          [] k = "params" -> p
          [] OTHER -> i]

Objects ==
    {Object(m, p, i) : m \in Names \cup {Absent},
                       p \in {"list", "dict", "other", Absent},
                       i \in Ids \cup {None, Absent}}

\* A JSON value met where a request object is expected: an object, or a value
\* that is none (a number, a string, null, a nested list)
Items == {[kind |-> "object", obj |-> o] : o \in Objects} \cup {[kind |-> "other", obj |-> <<>>]}

\* The elements a batch is drawn from
BatchItems ==
    {[kind |-> "object", obj |-> Object(m, Absent, i)] : m \in Names, i \in Ids \cup {Absent}}
    \cup {[kind |-> "other", obj |-> <<>>]}

\* No single request has been dispatched by this handle_json
NoCall == [exit |-> "none"]
\* What handle_json gives its caller: the JSON text of one object, of an array,
\* the empty string, or an exception (raised at from_dict, or inside call at
\* the stage named)
NoOutput == [kind |-> "none", obj |-> Nil, arr |-> <<>>, at |-> "none"]
Raised(at) == [kind |-> "raise", obj |-> Nil, arr |-> <<>>, at |-> at]
Text(dict) == [kind |-> "object", obj |-> dict, arr |-> <<>>, at |-> "none"]
EmptyText == [kind |-> "empty", obj |-> Nil, arr |-> <<>>, at |-> "none"]
ArrayText(dicts) == [kind |-> "array", obj |-> Nil, arr |-> dicts, at |-> "none"]

\* A thread that has not called anything yet
ThreadIdle ==
    [pc |-> "idle", op |-> "none", name |-> None, handler |-> None,
     ret |-> "none", size |-> 0, readLocked |-> FALSE]

\* A thread that has not called the client yet.  `todo` is the methods it was
\* asked to call, `tmp` the counter value read by +=, `sent` the request dicts
\* built so far (and then given to the transport), `responses` what came back,
\* `results` what the method returned.
CallerIdle ==
    [pc |-> "idle", kind |-> "none", todo |-> <<>>, tmp |-> 0,
     sent |-> <<>>, responses |-> <<>>, results |-> <<>>]

\* A coroutine that has not entered call yet.  `c` is the run of call (its
\* locals and its invocations), `i` the position of the `for mw in
\* self.middleware` loop it is in, `chain` the length of the middleware list
\* when it left the before loop, `handed` the request each before_call received
\* and the one it returned, `message` str(e) of the exception being handled.
TaskIdle ==
    [pc |-> "idle", i |-> 0, chain |-> 0, handed |-> <<>>, message |-> <<>>, c |-> NoCall]

(***************************** the server ***********************************)
Init ==
    /\ methods = [n \in {} |-> Nil]
    /\ middleware = <<>>
    /\ phase = "idle"
    /\ input = [kind |-> "none", n |-> 0]
    /\ idx = 0
    /\ request = Nil
    /\ response = Nil
    /\ responses = <<>>
    /\ output = NoOutput
    /\ calls = 0
    /\ call = NoCall
    /\ log = <<>>
    /\ lock = 0
    /\ threads = [t \in Threads |-> ThreadIdle]
    /\ id_counter = 0
    /\ clientLock = 0
    /\ callers = [t \in Clients |-> CallerIdle]
    /\ issued = <<>>
    /\ tasks = [t \in Tasks |-> TaskIdle]
    /\ services = [x \in {} |-> ""]
    /\ returned = [op |-> "none"]

handling == <<phase, input, idx, request, response, responses, output, calls, call>>

\* The registry and the middleware list are set up between two handle_json
\* invocations: call reads self.middleware and self.methods afresh at each use
\* and keeps nothing of them, so every request is served under one of the
\* configurations reached here.
Open == phase = "idle"

\* RPCServer.add_middleware
AddMiddleware(mw) ==
    /\ Open
    /\ Len(middleware) < MaxMiddleware
    /\ middleware' = Append(middleware, mw)
    /\ UNCHANGED <<methods, handling>>

\* RPCServer.register keeping an entry that is already there
RegisterIfAbsent(name, handler) ==
    /\ Open
    /\ methods' = IF name \in DOMAIN methods
                  THEN methods
                  ELSE [n \in DOMAIN methods \cup {name} |->
                           IF n = name THEN [name |-> name, handler |-> handler]
                           ELSE methods[n]]
    /\ UNCHANGED <<middleware, handling>>

\* RPCServer.register: insert or overwrite
Register(name, handler) ==
    /\ Open
    /\ methods' = [n \in DOMAIN methods \cup {name} |->
                      IF n = name THEN [name |-> name, handler |-> handler] ELSE methods[n]]
    /\ UNCHANGED <<middleware, handling>>

\* RPCServer.unregister
Unregister(name) ==
    /\ Open
    /\ methods' = IF name \in DOMAIN methods
                  THEN [n \in DOMAIN methods \ {name} |-> methods[n]]
                  ELSE methods
    /\ UNCHANGED <<middleware, handling>>

\* handle_json, lines 286-291: json.loads raises JSONDecodeError
HandleJsonUndecodable ==
    /\ phase = "idle"
    /\ input' = [kind |-> "undecodable", n |-> 0]
    /\ output' = Text(ToDict(Failure(RPCError(PARSE_ERROR, <<"Expecting value">>, None), None)))
    /\ phase' = "done"
    /\ UNCHANGED <<methods, middleware, idx, request, response, responses, calls, call>>

\* lines 295-298 answering the empty list with an empty array
EmptyBatchAsArray == ArrayText(<<>>)

\* lines 295-298: the answer to the empty list
EmptyBatch ==
    Text(ToDict(Failure(RPCError(INVALID_REQUEST, <<"Empty batch">>, None), None)))

\* handle_json, lines 294-298: the input is the empty list
HandleJsonEmptyBatch ==
    /\ phase = "idle"
    /\ input' = [kind |-> "list", n |-> 0]
    /\ output' = EmptyBatch
    /\ phase' = "done"
    /\ UNCHANGED <<methods, middleware, idx, request, response, responses, calls, call>>

\* handle_json, lines 294-300: the input is a list of n elements
HandleJsonBatch(n) ==
    /\ phase = "idle"
    /\ input' = [kind |-> "list", n |-> n]
    /\ phase' = "batch"
    /\ idx' = 1
    /\ responses' = <<>>
    /\ UNCHANGED <<methods, middleware, request, response, output, calls, call>>

\* What handle_json sees of a run of call: that it raised, or what it returned
Outcome(c) == [exit |-> c.exit, stage |-> c.stage, ret |-> c.ret]

\* handle_json, lines 301-307: one turn of the batch loop, on element `item`,
\* and the return that follows the last turn.  from_dict reads the element with
\* .get, which only a dict has: any other element raises AttributeError, which
\* leaves handle_json; so does an exception that leaves call.
HandleJsonBatchItem(item) ==
    /\ phase = "batch"
    /\ idx <= input.n
    /\ IF item.kind # "object"
       THEN /\ output' = Raised("from_dict")
            /\ phase' = "done"
            /\ UNCHANGED <<idx, request, response, responses, calls>>
       ELSE /\ request' = FromDict(item.obj)
            /\ calls' = calls + 1
            /\ \E o \in {Outcome(c) : c \in Call(FromDict(item.obj))} :
                 IF o.exit = "raise"
                 THEN /\ output' = Raised(o.stage)
                      /\ phase' = "done"
                      /\ UNCHANGED <<idx, response, responses>>
                 ELSE /\ response' = o.ret
                      /\ responses' = IF o.ret # Nil
                                      THEN Append(responses, ToDict(o.ret))
                                      ELSE responses
                      /\ idx' = idx + 1
                      /\ IF idx = input.n
                         THEN output' = ArrayText(responses') /\ phase' = "done"
                         ELSE UNCHANGED <<output, phase>>
    /\ UNCHANGED <<methods, middleware, input, call>>

\* handle_json, lines 309-315: the input is not a list
HandleJsonSingle(item) ==
    /\ phase = "idle"
    /\ input' = [kind |-> item.kind, n |-> 0]
    /\ phase' = "done"
    /\ IF item.kind # "object"
       THEN /\ output' = Raised("from_dict")
            /\ UNCHANGED <<request, response, calls, call>>
       ELSE /\ request' = FromDict(item.obj)
            /\ calls' = calls + 1
            /\ \E c \in Call(FromDict(item.obj)) :
                 /\ call' = c
                 /\ IF c.exit = "raise"
                    THEN /\ output' = Raised(c.stage)
                         /\ UNCHANGED response
                    ELSE /\ response' = c.ret
                         /\ output' = IF c.ret # Nil THEN Text(ToDict(c.ret)) ELSE EmptyText
    /\ UNCHANGED <<methods, middleware, idx, responses>>

\* RPCManager.handle, line 462: the caller takes what handle_json returned (or
\* the exception it raised); nothing of the invocation is left in the server
HandleReturn ==
    /\ phase = "done"
    /\ phase' = "idle"
    /\ input' = [kind |-> "none", n |-> 0]
    /\ idx' = 0
    /\ request' = Nil
    /\ response' = Nil
    /\ responses' = <<>>
    /\ output' = NoOutput
    /\ calls' = 0
    /\ call' = NoCall
    /\ UNCHANGED <<methods, middleware>>

\* what a step of the server leaves alone
outside == <<history, locking, client, pipeline, manager>>

Next ==
    \/ \E mw \in MiddlewareKinds : AddMiddleware(mw) /\ UNCHANGED outside
    \/ \E name \in Names, handler \in Handlers : Register(name, handler) /\ UNCHANGED outside
    \/ \E name \in Names : Unregister(name) /\ UNCHANGED outside
    \/ HandleJsonUndecodable /\ UNCHANGED outside
    \/ HandleJsonEmptyBatch /\ UNCHANGED outside
    \/ \E n \in 1..MaxBatch : HandleJsonBatch(n) /\ UNCHANGED outside
    \/ \E item \in BatchItems : HandleJsonBatchItem(item) /\ UNCHANGED outside
    \/ \E item \in Items : HandleJsonSingle(item) /\ UNCHANGED outside
    \/ HandleReturn /\ UNCHANGED outside

Spec == Init /\ [][Next]_vars

(***************************** properties ***********************************)
\* The names of the hooks and handlers a run of call invoked, in order
Invoked(c) == {c.events[k][1] : k \in 1..Len(c.events)}

\* An encoded Response carries exactly one of the keys result and error
ExactlyOne(d) == ("result" \in DOMAIN d) # ("error" \in DOMAIN d)

\* The batch loop has just finished a turn in which call returned
TurnDone == input.kind = "list" /\ calls >= 1 /\ idx = calls + 1

\* C1: a request without id (a notification) never yields a Response: call
\* returns None for it, handle_json returns the empty string for a single one and
\* adds no entry to the output of a batch.
C1_NotificationSilent ==
    /\ (call # NoCall /\ call.exit = "return" /\ IsNotification(call.orig))
           => (call.ret = Nil /\ output = EmptyText)
    /\ (TurnDone /\ IsNotification(request)) => response = Nil

\* C2: when a before_call hook raises RPCError, call returns a failure Response
\* with exactly that error's code, message and data, and neither the handler nor
\* any after_call or on_error hook has been invoked.
C2_BeforeErrorShortCircuits ==
    (call # NoCall /\ call.beforeError # Nil) =>
        /\ call.exit = "return"
        /\ Invoked(call) = {"before_call"}
        /\ call.ret # Nil
        /\ call.ret.result = None
        /\ DOMAIN call.ret.error \subseteq {"code", "message", "data"}
        /\ call.ret.error.code = call.beforeError.code
        /\ call.ret.error.message = call.beforeError.message
        /\ Get(call.ret.error, "data", None) = call.beforeError.data

\* C2 witness: the second hook of a chain raised an RPCError that carries data,
\* for a request whose method is registered
C2_Witness ==
    /\ call # NoCall
    /\ call.beforeError # Nil
    /\ call.beforeError.data # None
    /\ call.events = <<(<<"before_call", 1>>), (<<"before_call", 2>>)>>
    /\ call.orig.method \in DOMAIN methods

\* C3: in a non-empty batch no element's decode or dispatch failure stops the
\* loop: handle_json visits every element and returns the array of the responses
\* collected (an exception from an after_call hook is the documented exception).
C3_BatchElementsIndependent ==
    (phase = "done" /\ input.kind = "list" /\ input.n >= 1) =>
        \/ output.kind = "array" /\ idx = input.n + 1 /\ output.arr = responses
        \/ output.kind = "raise" /\ output.at = "after"

\* C4: each turn of the batch loop dispatches its element once and appends the
\* element's Response to the output exactly when the element is not a
\* notification, so the output is the Responses of the non-notification elements
\* in input order.
C4_BatchOutputInOrder ==
    [][(phase = "batch" /\ idx' = idx + 1) =>
          /\ calls' = calls + 1
          /\ IF IsNotification(request')
             THEN responses' = responses
             ELSE response' # Nil /\ responses' = Append(responses, ToDict(response'))
          /\ (phase' = "done" => output' = ArrayText(responses'))]_vars

\* C5: unless an after_call hook fails, no exception leaves call: it ends by
\* returning a Response or None.
C5_NoExceptionEscapes ==
    (call # NoCall /\ call.exit = "raise") => call.stage = "after"

C7_ResponseEchoesOriginalId ==
    (call # NoCall /\ call.exit = "return") =>
        /\ call.ret # Nil => call.ret.id = call.orig.id
        /\ call.stage = "done" => (call.ret = Nil <=> IsNotification(call.orig))

\* C8: when the request reaches the registry lookup and the registry has no entry
\* for its method, call returns the failure -32601 "Method not found: <name>"
\* with the request's id, whatever params is, and no handler has been invoked.
C8_UnknownMethod ==
    (call # NoCall /\ call.stage # "before" /\ call.request.method \notin DOMAIN methods) =>
        /\ call.exit = "return"
        /\ call.ret # Nil
        /\ call.ret.error = [code |-> -32601,
                             message |-> <<"Method not found: ", call.request.method>>]
        /\ call.ret.result = None
        /\ call.ret.id = call.request.id
        /\ "handler" \notin Invoked(call)

\* C8 witness: an unregistered method called with a dict of params and an id,
\* while another method is registered
C8_Witness ==
    /\ call # NoCall
    /\ call.stage = "lookup"
    /\ call.request.params = "dict"
    /\ call.request.id # None
    /\ call.request.method \in Names \ DOMAIN methods
    /\ DOMAIN methods # {}

\* C9: the empty batch is answered by one failure object, code -32600 and a null
\* id, not by an array; call is not invoked for it, so no hook or handler runs.
C9_EmptyBatch ==
    (phase = "done" /\ input = [kind |-> "list", n |-> 0]) =>
        /\ output.kind = "object"
        /\ output.obj = [jsonrpc |-> "2.0", id |-> None,
                         error |-> [code |-> -32600, message |-> <<"Empty batch">>]]
        /\ calls = 0
        /\ call = NoCall

\* C9 witness: an empty batch handled by a server that has middleware and a
\* registered method
C9_Witness ==
    /\ phase = "done"
    /\ input = [kind |-> "list", n |-> 0]
    /\ Len(middleware) > 0
    /\ DOMAIN methods # {}

\* C10: an envelope that cannot be decoded, or that decodes to a value that is
\* neither an object nor a list, is answered by one failure object with code
\* -32700 and a null id; handle_json does not raise.
C10_MalformedEnvelope ==
    (phase = "done" /\ input.kind \in {"undecodable", "other"}) =>
        /\ output.kind = "object"
        /\ DOMAIN output.obj = {"jsonrpc", "id", "error"}
        /\ output.obj.error.code = -32700
        /\ output.obj.id = None

\* The middleware indices of the invocations of hook `name`, in order
HookOrder(c, name) ==
    LET sel == SelectSeq(c.events, LAMBDA e : e[1] = name)
    IN [k \in 1..Len(sel) |-> sel[k][2]]

\* 1, 2, ..., n
UpTo(n) == [k \in 1..n |-> k]

RECURSIVE AfterChain(_, _, _)
\* The responses the after_call hooks from the i-th on can turn resp into, each
\* hook receiving what the one before it returned
AfterChain(req, resp, i) ==
    IF i > Len(middleware)
    THEN {resp}
    ELSE UNION {AfterChain(req, o.response, i + 1) :
                    o \in {x \in AfterCall(middleware[i], req, resp) : x.kind = "return"}}

\* C14: when every before_call hook has completed without error, the after_call
\* hook of every middleware runs exactly once, in registration order, each on the
\* Response the stage before it produced, whether the dispatch stage ended in a
\* result or in a failure (method not found, invalid params, an RPCError from the
\* handler, an unexpected exception).  A call that an after_call or on_error hook
\* made raise is left aside.
C14_AfterHooksAlwaysRun ==
    (call # NoCall /\ call.exit = "return" /\ call.stage # "before") =>
        /\ HookOrder(call, "after_call") = UpTo(Len(middleware))
        /\ call.dispatched # Nil =>
               call.response \in AfterChain(call.request, call.dispatched, 1)

\* The exception message the handler's outcome of the given kind carries
RaisedMessage(c) ==
    {o.message : o \in {x \in HandlerCall(c.request.method, c.style) :
                            /\ x.kind \in {"typeerror", "exception"}
                            /\ c.handler = (IF x.kind = "typeerror" THEN x.at ELSE x.kind)}}

\* The on_error chain did what it is documented to do for a handler that ended
\* in one of `kinds`
OnErrorFirstWins(kinds) ==
    (call # NoCall /\ call.handler \in kinds /\ call.dispatched # Nil) =>
        LET offered == HookOrder(call, "on_error")
            fallback == {Failure(RPCError(INTERNAL_ERROR, m, None), call.request.id) :
                             m \in RaisedMessage(call)}
        IN /\ offered = UpTo(Len(offered))
           /\ IF call.dispatched \in fallback
              THEN offered = UpTo(Len(middleware))
              ELSE /\ Len(offered) >= 1
                   /\ call.dispatched \in
                          {o.response : o \in {x \in OnError(middleware[Len(offered)],
                                                             call.request, <<>>) :
                                                   x.kind = "return" /\ x.response # Nil}}

\* C15: when the handler raises an exception that is not an RPCError (from its
\* body), the exception is offered to the on_error hooks in registration order;
\* the first Response a hook returns becomes the call's Response and no later
\* on_error is invoked; when every hook returns None the Response is the failure
\* -32603 whose message is the exception's message.  A call that an on_error
\* hook made raise is left aside.
C15_OnErrorFirstWins == OnErrorFirstWins({"exception", "body"})

\* What the engine does keep of C15: the same, for an exception that is not a
\* TypeError
OnErrorFirstWinsExceptTypeError == OnErrorFirstWins({"exception"})

\* C18: the engine answers -32602 exactly when binding the params to the handler
\* failed; an exception raised in the handler's body once binding succeeded is
\* never answered with -32602: it is offered to the on_error hooks and becomes
\* -32603 when none of them returns a Response.
C18_InvalidParamsOnlyOnBinding ==
    (call # NoCall /\ call.handler # "none" /\ call.dispatched # Nil) =>
        /\ (Truthy(call.dispatched.error) /\ call.dispatched.error.code = -32602)
               <=> call.handler = "bind"
        /\ call.handler \in {"body", "exception"} =>
               /\ Len(middleware) > 0 => Len(HookOrder(call, "on_error")) > 0
               /\ Len(HookOrder(call, "on_error")) = Len(middleware) =>
                      call.dispatched.error.code \in {-32603, -32000}

(***************************** a server with AuthMiddleware *****************)
\* The middlewares of a server that authenticates
AuthKinds == {"Auth", "Logging"}

\* The metadata the caller of call may have set on a request object: no token,
\* an empty token, a token the validator rejects, one it accepts
Metadata ==
    {[k \in {} |-> ""]} \cup {[auth_token |-> t] : t \in {"", "bad", "good"}}

\* The request objects given to call directly by the host application, on which
\* it has set a metadata attribute
DirectRequests ==
    {[method |-> m, params |-> "list", id |-> i, jsonrpc |-> "2.0", metadata |-> md] :
        m \in Names, i \in {"1", None}, md \in Metadata}

\* await server.call(request), lines 218-282, made by the host application
CallDirect(req) ==
    /\ phase = "idle"
    /\ input' = [kind |-> "direct", n |-> 0]
    /\ phase' = "done"
    /\ request' = req
    /\ calls' = calls + 1
    /\ \E c \in Call(req) :
         /\ call' = c
         /\ response' = IF c.exit = "raise" THEN response ELSE c.ret
         /\ output' = IF c.exit = "raise" THEN Raised(c.stage) ELSE NoOutput
    /\ UNCHANGED <<methods, middleware, idx, responses>>

AuthNext ==
    \/ \E mw \in AuthKinds : AddMiddleware(mw) /\ UNCHANGED outside
    \/ \E name \in Names, handler \in Handlers : Register(name, handler) /\ UNCHANGED outside
    \/ \E name \in Names : Unregister(name) /\ UNCHANGED outside
    \/ \E item \in Items : HandleJsonSingle(item) /\ UNCHANGED outside
    \/ \E req \in DirectRequests : CallDirect(req) /\ UNCHANGED outside
    \/ HandleReturn /\ UNCHANGED outside

SpecAuth == Init /\ [][AuthNext]_vars

\* The request carries a token the validator accepts
CarriesAcceptedToken(req) ==
    /\ "metadata" \in DOMAIN req
    /\ "auth_token" \in DOMAIN req.metadata
    /\ Validator(req.metadata.auth_token)

\* C19: with AuthMiddleware in the chain, a request that carries no auth token
\* or one the validator rejects gets the failure -32001 "Authentication
\* required" and its handler is not invoked; a request that carries a token the
\* validator accepts passes the hook unchanged and reaches dispatch.
C19_AuthRequired ==
    (call # NoCall /\ \E k \in 1..Len(middleware) : middleware[k] = "Auth") =>
        IF CarriesAcceptedToken(call.orig)
        THEN /\ call.stage # "before"
             /\ call.request = call.orig
        ELSE /\ call.exit = "return"
             /\ call.ret # Nil
             /\ call.ret.error = [code |-> -32001, message |-> <<"Authentication required">>]
             /\ "handler" \notin Invoked(call)

(***************************** the registry, operation by operation **********)
\* The registry under a sequence of register, unregister and lookup operations
\* made one after the other, each written to `log` with what it returned.
MaxOps == 5

\* RPCServer.unregister, lines 213-216: the value returned
UnregisterReturn(name) == name \in DOMAIN methods

\* RPCServer.call, line 232: self.methods.get(request.method)
Lookup(name) == Get(methods, name, Nil)

RegistryRegister(name, handler) ==
    /\ Len(log) < MaxOps
    /\ Register(name, handler)
    /\ log' = Append(log, [op |-> "register", name |-> name, handler |-> handler])

RegistryUnregister(name) ==
    /\ Len(log) < MaxOps
    /\ Unregister(name)
    /\ log' = Append(log, [op |-> "unregister", name |-> name,
                           ret |-> UnregisterReturn(name)])

RegistryLookup(name) ==
    /\ Len(log) < MaxOps
    /\ log' = Append(log, [op |-> "lookup", name |-> name, found |-> Lookup(name)])
    /\ UNCHANGED server

\* what a step of this history leaves alone
outsideRegistry == <<locking, client, pipeline, manager>>

RegistryNext ==
    \/ \E name \in Names, handler \in Handlers :
          RegistryRegister(name, handler) /\ UNCHANGED outsideRegistry
    \/ \E name \in Names : RegistryUnregister(name) /\ UNCHANGED outsideRegistry
    \/ \E name \in Names : RegistryLookup(name) /\ UNCHANGED outsideRegistry

SpecRegistry == Init /\ [][RegistryNext]_vars

RECURSIVE Latest(_, _, _)
\* The handler of the last register(name, h) among the first k operations of the
\* log that no unregister(name) follows, or None when there is none
Latest(l, name, k) ==
    IF k = 0 THEN None
    ELSE IF l[k].name = name /\ l[k].op = "register" THEN l[k].handler
    ELSE IF l[k].name = name /\ l[k].op = "unregister" THEN None
    ELSE Latest(l, name, k - 1)

\* What a lookup gives for an entry of the registry: its handler, or None
HandlerOf(m) == IF m = Nil THEN None ELSE m.handler

\* C11: after any sequence of register and unregister, looking a name up gives
\* the handler of the latest register of that name that no unregister of it
\* follows, and nothing otherwise (so register on a name already there
\* overwrites); unregister returns true exactly when the name had an entry, so a
\* second unregister of the same name returns false and leaves the registry as it
\* was.
C11_RegistryLatestWins ==
    /\ \A name \in Names : HandlerOf(Lookup(name)) = Latest(log, name, Len(log))
    /\ \A k \in 1..Len(log) :
         /\ log[k].op = "lookup" =>
                HandlerOf(log[k].found) = Latest(log, log[k].name, k - 1)
         /\ log[k].op = "unregister" =>
                /\ log[k].ret = (Latest(log, log[k].name, k - 1) # None)
                /\ (k > 1 /\ log[k - 1].op = "unregister" /\ log[k - 1].name = log[k].name)
                       => log[k].ret = FALSE
    /\ DOMAIN methods \subseteq Names
    /\ \A name \in DOMAIN methods : methods[name].name = name

\* C11 witness: a name registered, registered again with another handler, looked
\* up (the second handler is found), unregistered, and unregistered again
C11_Witness ==
    /\ Len(log) = 5
    /\ log[1].op = "register" /\ log[2].op = "register"
    /\ log[1].name = log[2].name /\ log[1].handler # log[2].handler
    /\ log[3].op = "lookup" /\ log[3].name = log[1].name
    /\ HandlerOf(log[3].found) = log[2].handler
    /\ log[4] = [op |-> "unregister", name |-> log[1].name, ret |-> TRUE]
    /\ log[5] = [op |-> "unregister", name |-> log[1].name, ret |-> FALSE]

(***************************** threads on one server ************************)
\* Several threads use one RPCServer.  register and unregister run their bodies
\* inside `with self._lock`; RPCServer.call reads self.methods.get and
\* list_methods iterates self.methods.values().  A thread switch can fall
\* between any two of the steps below.

\* a thread calls register, unregister, call (as far as its lookup) or list_methods
ThreadCall(t, op, name, handler) ==
    /\ threads[t].pc = "idle"
    /\ threads' = [threads EXCEPT ![t] =
           [@ EXCEPT !.op = op, !.name = name, !.handler = handler,
                     !.pc = CASE op \in {"register", "unregister"} -> "acquire"
                              [] op = "get" -> "get"
                              [] OTHER -> "values"]]
    /\ UNCHANGED <<lock, server>>

\* `with self._lock:` is entered, lines 202 and 212
Acquire(t) ==
    /\ threads[t].pc = "acquire"
    /\ lock = 0
    /\ lock' = t
    /\ threads' = [threads EXCEPT ![t].pc = "locked"]
    /\ UNCHANGED server

\* register's body, lines 203-208
LockedRegister(t) ==
    /\ threads[t].pc = "locked"
    /\ threads[t].op = "register"
    /\ Register(threads[t].name, threads[t].handler)
    /\ threads' = [threads EXCEPT ![t].pc = "release"]
    /\ UNCHANGED lock

\* unregister's body, lines 213-216
LockedUnregister(t) ==
    /\ threads[t].pc = "locked"
    /\ threads[t].op = "unregister"
    /\ Unregister(threads[t].name)
    /\ threads' = [threads EXCEPT ![t].pc = "release",
                       ![t].ret = IF UnregisterReturn(threads[t].name) THEN "True" ELSE "False"]
    /\ UNCHANGED lock

\* the with block is left
Release(t) ==
    /\ threads[t].pc = "release"
    /\ lock' = 0
    /\ threads' = [threads EXCEPT ![t].pc = "done"]
    /\ UNCHANGED server

\* RPCServer.call, line 232: self.methods.get(request.method), no lock taken
MethodsGet(t) ==
    /\ threads[t].pc = "get"
    /\ threads' = [threads EXCEPT ![t].pc = "done",
                       ![t].ret = IF Lookup(threads[t].name) = Nil THEN "missing" ELSE "found",
                       ![t].readLocked = (lock # 0)]
    /\ UNCHANGED <<lock, server>>

\* list_methods, lines 319-325: the iteration over self.methods.values() starts,
\* no lock taken
ListMethodsStart(t) ==
    /\ threads[t].pc = "values"
    /\ threads' = [threads EXCEPT ![t].pc = "iterating",
                       ![t].size = Cardinality(DOMAIN methods),
                       ![t].readLocked = (lock # 0)]
    /\ UNCHANGED <<lock, server>>

\* list_methods: the iteration goes on to its end; a dict whose size changed
\* since the iteration started makes it raise RuntimeError
ListMethodsEnd(t) ==
    /\ threads[t].pc = "iterating"
    /\ threads' = [threads EXCEPT ![t].pc = "done",
                       ![t].ret = IF Cardinality(DOMAIN methods) # threads[t].size
                                  THEN "RuntimeError" ELSE "list",
                       ![t].readLocked = (@ \/ lock # 0)]
    /\ UNCHANGED <<lock, server>>

\* what a step of a thread leaves alone
outsideLock == <<history, client, pipeline, manager>>

LockNext ==
    \/ \E t \in Threads, name \in Names, handler \in Handlers :
          ThreadCall(t, "register", name, handler) /\ UNCHANGED outsideLock
    \/ \E t \in Threads, name \in Names, op \in {"unregister", "get"} :
          ThreadCall(t, op, name, None) /\ UNCHANGED outsideLock
    \/ \E t \in Threads : ThreadCall(t, "list_methods", None, None) /\ UNCHANGED outsideLock
    \/ \E t \in Threads : Acquire(t) /\ UNCHANGED outsideLock
    \/ \E t \in Threads : LockedRegister(t) /\ UNCHANGED outsideLock
    \/ \E t \in Threads : LockedUnregister(t) /\ UNCHANGED outsideLock
    \/ \E t \in Threads : Release(t) /\ UNCHANGED outsideLock
    \/ \E t \in Threads : MethodsGet(t) /\ UNCHANGED outsideLock
    \/ \E t \in Threads : ListMethodsStart(t) /\ UNCHANGED outsideLock
    \/ \E t \in Threads : ListMethodsEnd(t) /\ UNCHANGED outsideLock

SpecLock == Init /\ [][LockNext]_vars

\* The thread is inside the critical section of register or unregister
Inside(t) == threads[t].pc \in {"locked", "release"}

\* C12: registry access is serialized: no two register/unregister operations are
\* inside the critical section at once, and no lookup (the get of call, the
\* iteration of list_methods) reads the registry while a register or unregister
\* is inside its critical section.
C12_RegistrySerialized ==
    /\ \A t, u \in Threads : (Inside(t) /\ Inside(u)) => t = u
    /\ \A t \in Threads : ~threads[t].readLocked

(***************************** threads on one client ************************)
\* Several threads use one RPCClient.  The id of an RPCRequest is an
\* Optional[int]: the empty tuple for None, the 1-tuple of the number otherwise.

\* RPCRequest.to_dict, lines 61-69: the id only when it is not None
RequestToDict(method, id) ==
    IF id # <<>>
    THEN [jsonrpc |-> "2.0", method |-> method, params |-> "list", id |-> id[1]]
    ELSE [jsonrpc |-> "2.0", method |-> method, params |-> "list"]

\* The `calls` argument of a batch of n calls: add, sub, add, ...
CallsOf(n) == [i \in 1..n |-> IF i % 2 = 1 THEN "add" ELSE "sub"]

\* RPCClient.call, lines 341-350, up to the call of _next_id
ClientCall(t, method) ==
    /\ callers[t].pc = "idle"
    /\ callers' = [callers EXCEPT ![t] =
           [@ EXCEPT !.kind = "call", !.todo = <<method>>, !.pc = "acquire"]]
    /\ UNCHANGED <<id_counter, clientLock, issued>>

\* RPCClient.batch, lines 388-397, with n calls, up to the first call of _next_id
ClientBatch(t, n) ==
    /\ callers[t].pc = "idle"
    /\ callers' = [callers EXCEPT ![t] =
           [@ EXCEPT !.kind = "batch", !.todo = CallsOf(n), !.pc = "acquire"]]
    /\ UNCHANGED <<id_counter, clientLock, issued>>

\* RPCClient.notify, lines 374-386: the request has id None and is sent
ClientNotify(t, method) ==
    /\ callers[t].pc = "idle"
    /\ callers' = [callers EXCEPT ![t] =
           [@ EXCEPT !.kind = "notify", !.pc = "done",
                     !.sent = <<RequestToDict(method, <<>>)>>]]
    /\ UNCHANGED <<id_counter, clientLock, issued>>

\* _next_id entering `with self._lock` without waiting for it
NextIdAcquireUnlocked(t) ==
    /\ callers[t].pc = "acquire"
    /\ clientLock' = t
    /\ callers' = [callers EXCEPT ![t].pc = "load"]
    /\ UNCHANGED <<id_counter, issued>>

\* _next_id, line 337: `with self._lock` is entered
NextIdAcquire(t) ==
    /\ callers[t].pc = "acquire"
    /\ clientLock = 0
    /\ clientLock' = t
    /\ callers' = [callers EXCEPT ![t].pc = "load"]
    /\ UNCHANGED <<id_counter, issued>>

\* _next_id, line 338: self._id_counter += 1 reads the counter ...
NextIdLoad(t) ==
    /\ callers[t].pc = "load"
    /\ callers' = [callers EXCEPT ![t].tmp = id_counter, ![t].pc = "store"]
    /\ UNCHANGED <<id_counter, clientLock, issued>>

\* ... and writes it back, one more
NextIdStore(t) ==
    /\ callers[t].pc = "store"
    /\ id_counter' = callers[t].tmp + 1
    /\ callers' = [callers EXCEPT ![t].pc = "return"]
    /\ UNCHANGED <<clientLock, issued>>

\* _next_id, line 339: return self._id_counter, leaving the with block; the
\* caller builds its request with that id (lines 345-349, 392-397)
NextIdReturn(t) ==
    /\ callers[t].pc = "return"
    /\ clientLock' = 0
    /\ issued' = Append(issued, id_counter)
    /\ callers' = [callers EXCEPT ![t] =
           [@ EXCEPT !.sent = Append(@, RequestToDict(callers[t].todo[Len(@) + 1],
                                                      <<id_counter>>)),
                     !.pc = IF Len(callers[t].sent) + 1 < Len(callers[t].todo)
                            THEN "acquire" ELSE "send"]]
    /\ UNCHANGED id_counter

\* What the peer answers to one request: a result, or an error
PeerReply(req, kind) ==
    IF kind = "result"
    THEN [jsonrpc |-> "2.0", id |-> req.id, result |-> <<"result of ", req.method>>]
    ELSE [jsonrpc |-> "2.0", id |-> req.id,
          error |-> [code |-> SERVER_ERROR, message |-> <<"failed: ", req.method>>]]

\* What a peer that answers every request once can return for the array
\* `requests`: one reply per request, in any order
PeerReplies(requests) ==
    LET n == Len(requests)
    IN {[k \in 1..n |-> PeerReply(requests[p[k]], o[p[k]])] :
            p \in {q \in [1..n -> 1..n] : \A i, j \in 1..n : q[i] = q[j] => i = j},
            o \in [1..n -> {"result", "error"}]}

\* What call and batch make of one response dict (lines 363-372, 407-413): the
\* RPCError built from its error, or its result
ResponseOutcome(resp) ==
    IF "error" \in DOMAIN resp
    THEN [kind |-> "RPCError", code |-> resp.error.code, message |-> resp.error.message]
    ELSE [kind |-> "result", value |-> Get(resp, "result", None)]

\* RPCClient.batch, lines 405-415: one entry per response, in the order of the
\* response array
BatchResults(replies) ==
    [k \in 1..Len(replies) |-> ResponseOutcome(replies[k])]

\* RPCClient.call, lines 352-372: the request goes through the transport; an
\* empty answer gives None, an error is raised as RPCError, else the result
CallTransport(t, kind) ==
    /\ callers[t].pc = "send"
    /\ callers[t].kind = "call"
    /\ callers' = [callers EXCEPT ![t] =
           IF kind = "empty"
           THEN [@ EXCEPT !.pc = "done", !.results = <<[kind |-> "None"]>>]
           ELSE [@ EXCEPT !.pc = "done",
                          !.responses = <<PeerReply(callers[t].sent[1], kind)>>,
                          !.results = <<ResponseOutcome(PeerReply(callers[t].sent[1], kind))>>]]
    /\ UNCHANGED <<id_counter, clientLock, issued>>

\* RPCClient.batch, lines 399-415: the array goes through the transport in one
\* round trip and the answer is turned into the list of results
BatchTransport(t) ==
    /\ callers[t].pc = "send"
    /\ callers[t].kind = "batch"
    /\ \E replies \in PeerReplies(callers[t].sent) :
         callers' = [callers EXCEPT ![t] =
             [@ EXCEPT !.pc = "done", !.responses = replies,
                       !.results = BatchResults(replies)]]
    /\ UNCHANGED <<id_counter, clientLock, issued>>

\* what a step of the client leaves alone
outsideClient == <<server, history, locking, pipeline, manager>>

\* The threads of the client as far as the transport: how _next_id interleaves
ClientNext ==
    \/ \E t \in Clients, method \in Names : ClientCall(t, method) /\ UNCHANGED outsideClient
    \/ \E t \in Clients, n \in 1..MaxCalls : ClientBatch(t, n) /\ UNCHANGED outsideClient
    \/ \E t \in Clients, method \in Names : ClientNotify(t, method) /\ UNCHANGED outsideClient
    \/ \E t \in Clients : NextIdAcquire(t) /\ UNCHANGED outsideClient
    \/ \E t \in Clients : NextIdLoad(t) /\ UNCHANGED outsideClient
    \/ \E t \in Clients : NextIdStore(t) /\ UNCHANGED outsideClient
    \/ \E t \in Clients : NextIdReturn(t) /\ UNCHANGED outsideClient

SpecClient == Init /\ [][ClientNext]_vars

\* The same threads, through the transport and back
ExchangeNext ==
    \/ \E t \in Clients, method \in Names : ClientCall(t, method) /\ UNCHANGED outsideClient
    \/ \E t \in Clients, n \in 1..MaxCalls : ClientBatch(t, n) /\ UNCHANGED outsideClient
    \/ \E t \in Clients, method \in Names : ClientNotify(t, method) /\ UNCHANGED outsideClient
    \/ \E t \in Clients : NextIdAcquire(t) /\ UNCHANGED outsideClient
    \/ \E t \in Clients : NextIdLoad(t) /\ UNCHANGED outsideClient
    \/ \E t \in Clients : NextIdStore(t) /\ UNCHANGED outsideClient
    \/ \E t \in Clients : NextIdReturn(t) /\ UNCHANGED outsideClient
    \/ \E t \in Clients, kind \in {"result", "error", "empty"} :
          CallTransport(t, kind) /\ UNCHANGED outsideClient
    \/ \E t \in Clients : BatchTransport(t) /\ UNCHANGED outsideClient

SpecExchange == Init /\ [][ExchangeNext]_vars

\* The ids of the requests thread t has built, in the order it built them
IdsOf(t) ==
    LET withId == SelectSeq(callers[t].sent, LAMBDA d : "id" \in DOMAIN d)
    IN [k \in 1..Len(withId) |-> withId[k].id]

\* C13: every request built by call or batch gets a fresh id: across the threads
\* sharing the client no two requests have the same id, _next_id hands the ids
\* out in strictly increasing order (1, 2, 3, ...), and a request built by notify
\* has no id and leaves the counter where it was.
C13_FreshIds ==
    /\ \A k \in 1..Len(issued) : issued[k] = k
    /\ \A t, u \in Clients : \A i \in 1..Len(IdsOf(t)), j \in 1..Len(IdsOf(u)) :
           IdsOf(t)[i] = IdsOf(u)[j] => (t = u /\ i = j)
    /\ \A t \in Clients : \A i, j \in 1..Len(IdsOf(t)) : i < j => IdsOf(t)[i] < IdsOf(t)[j]
    /\ \A t \in Clients :
           IF callers[t].kind = "notify"
           THEN \A k \in 1..Len(callers[t].sent) : "id" \notin DOMAIN callers[t].sent[k]
           ELSE \A k \in 1..Len(callers[t].sent) : "id" \in DOMAIN callers[t].sent[k]
    /\ clientLock = 0 => id_counter = Len(issued)
    /\ Len(issued) =
          Cardinality({<<t, k>> \in Clients \X (1..MaxCalls + 1) : k <= Len(IdsOf(t))})

\* C13 witness: a batch of two whose ids are 1 and 3, because another thread's
\* call took 2 in between
C13_Witness ==
    \E t, u \in Clients :
        /\ callers[t].kind = "batch" /\ IdsOf(t) = <<1, 3>>
        /\ callers[u].kind = "call" /\ IdsOf(u) = <<2>>

\* C17: the i-th entry of the list batch returns is the outcome of the response
\* whose id is the id given to the i-th call, whatever order the peer put the
\* responses in (the peer answers every request id once).
C17_BatchResultsById ==
    \A t \in Clients :
        (callers[t].kind = "batch" /\ callers[t].pc = "done") =>
            /\ Len(callers[t].results) = Len(callers[t].sent)
            /\ \A i \in 1..Len(callers[t].sent), k \in 1..Len(callers[t].responses) :
                   callers[t].responses[k].id = callers[t].sent[i].id
                       => callers[t].results[i] = ResponseOutcome(callers[t].responses[k])

(***************************** call, await by await *************************)
\* Several coroutines run RPCServer.call on one server.  A coroutine can be
\* suspended at each await (a hook, a coroutine handler), and other coroutines,
\* and add_middleware / register / unregister, run in between.  Each loop reads
\* self.middleware as it is when the loop gets there.

\* await server.call(request) is entered
TaskStart(t, req) ==
    /\ tasks[t].pc = "idle"
    /\ tasks' = [tasks EXCEPT ![t] = [TaskIdle EXCEPT !.pc = "before", !.i = 1, !.c = NewCall(req)]]
    /\ UNCHANGED server

\* lines 221-230: one turn of the before loop
TaskBefore(t) ==
    LET k == tasks[t] IN
    /\ k.pc = "before"
    /\ k.i <= Len(middleware)
    /\ \E o \in BeforeCall(middleware[k.i], k.c.request) :
         LET e == Event(k.c, "before_call", k.i) IN
         tasks' = [tasks EXCEPT ![t] =
            CASE o.kind = "return" ->
                   [k EXCEPT !.i = k.i + 1, !.c = [e EXCEPT !.request = o.request],
                             !.handed = Append(@, <<k.c.request, o.request>>)]
              [] o.kind = "rpcerror" ->
                   [k EXCEPT !.pc = "done",
                             !.c = CHOOSE x \in BeforeFailed(k.c, k.i, o.error) : TRUE]
              [] OTHER ->
                   [k EXCEPT !.pc = "done",
                             !.c = Return(e, "before",
                                     Failure(RPCError(INTERNAL_ERROR, o.message, None),
                                             k.c.request.id))]]
    /\ UNCHANGED server

\* lines 232-247 started although the before loop has not come to its end
TaskDispatchEarly(t) ==
    LET k == tasks[t] IN
    /\ k.pc = "before"
    /\ tasks' = [tasks EXCEPT ![t] =
          IF k.c.request.method \in DOMAIN methods
          THEN [k EXCEPT !.pc = "handler", !.chain = Len(middleware),
                         !.c = [Event(k.c, "handler", 0) EXCEPT
                                    !.lookup = "hit", !.style = Style(k.c.request.params)]]
          ELSE [k EXCEPT !.pc = "done", !.chain = Len(middleware), !.c = NotFound(k.c)]]
    /\ UNCHANGED server

\* lines 232-247: the before loop is over; the method is looked up and, when it
\* is there, its handler is invoked
TaskDispatch(t) ==
    LET k == tasks[t] IN
    /\ k.pc = "before"
    /\ k.i > Len(middleware)
    /\ tasks' = [tasks EXCEPT ![t] =
          IF k.c.request.method \in DOMAIN methods
          THEN [k EXCEPT !.pc = "handler", !.chain = Len(middleware),
                         !.c = [Event(k.c, "handler", 0) EXCEPT
                                    !.lookup = "hit", !.style = Style(k.c.request.params)]]
          ELSE [k EXCEPT !.pc = "done", !.chain = Len(middleware), !.c = NotFound(k.c)]]
    /\ UNCHANGED server

\* lines 249-261: the handler (awaited when it is a coroutine) has ended
TaskHandlerDone(t) ==
    LET k == tasks[t] IN
    /\ k.pc = "handler"
    /\ \E o \in HandlerCall(k.c.request.method, k.c.style) :
         LET e == [k.c EXCEPT !.handler = IF o.kind = "typeerror" THEN o.at ELSE o.kind] IN
         tasks' = [tasks EXCEPT ![t] =
            CASE o.kind = "return" ->
                   [k EXCEPT !.pc = "after", !.i = 1,
                             !.c = [e EXCEPT !.response = Success(o.value, k.c.request.id)]]
              [] o.kind = "rpcerror" ->
                   [k EXCEPT !.pc = "after", !.i = 1,
                             !.c = [e EXCEPT !.response = Failure(o.error, k.c.request.id)]]
              [] o.kind = "typeerror" ->
                   [k EXCEPT !.pc = "after", !.i = 1,
                             !.c = [e EXCEPT !.response =
                                       Failure(RPCError(INVALID_PARAMS, o.message, None),
                                               k.c.request.id)]]
              [] OTHER ->
                   [k EXCEPT !.pc = "on_error", !.i = 1, !.message = o.message, !.c = e]]
    /\ UNCHANGED server

\* lines 261-267: one turn of the on_error loop
TaskOnError(t) ==
    LET k == tasks[t] IN
    /\ k.pc = "on_error"
    /\ k.i <= Len(middleware)
    /\ \E o \in OnError(middleware[k.i], k.c.request, k.message) :
         LET e == Event(k.c, "on_error", k.i) IN
         tasks' = [tasks EXCEPT ![t] =
            IF o.kind = "return"
            THEN IF o.response # Nil
                 THEN [k EXCEPT !.pc = "after", !.i = 1, !.c = [e EXCEPT !.response = o.response]]
                 ELSE [k EXCEPT !.i = k.i + 1, !.c = e]
            ELSE [k EXCEPT !.pc = "raised", !.c = Raise(e, "on_error")]]
    /\ UNCHANGED server

\* lines 268-272: no on_error hook gave a Response
TaskOnErrorOver(t) ==
    LET k == tasks[t] IN
    /\ k.pc = "on_error"
    /\ k.i > Len(middleware)
    /\ tasks' = [tasks EXCEPT ![t] =
          [k EXCEPT !.pc = "after", !.i = 1,
                    !.c = [k.c EXCEPT !.response =
                              Failure(RPCError(INTERNAL_ERROR, k.message, None),
                                      k.c.request.id)]]]
    /\ UNCHANGED server

\* lines 274-276: one turn of the after loop
TaskAfter(t) ==
    LET k == tasks[t] IN
    /\ k.pc = "after"
    /\ k.i <= Len(middleware)
    /\ \E o \in AfterCall(middleware[k.i], k.c.request, k.c.response) :
         LET e == Event(k.c, "after_call", k.i) IN
         tasks' = [tasks EXCEPT ![t] =
            IF o.kind = "return"
            THEN [k EXCEPT !.i = k.i + 1, !.c = [e EXCEPT !.response = o.response]]
            ELSE [k EXCEPT !.pc = "raised", !.c = Raise(e, "after")]]
    /\ UNCHANGED server

\* lines 278-282: the after loop is over and call returns
TaskReturn(t) ==
    LET k == tasks[t] IN
    /\ k.pc = "after"
    /\ k.i > Len(middleware)
    /\ tasks' = [tasks EXCEPT ![t] = [k EXCEPT !.pc = "done", !.c = Finish(k.c)]]
    /\ UNCHANGED server

\* The requests the coroutines are given
TaskRequests == {[method |-> "add", params |-> "list", id |-> "1", jsonrpc |-> "2.0"]}

\* what a step of a coroutine, or of the set-up, leaves alone
outsidePipeline == <<history, locking, client, manager>>

PipelineNext ==
    \/ \E mw \in MiddlewareKinds : AddMiddleware(mw) /\ UNCHANGED <<outsidePipeline, pipeline>>
    \/ Register("add", "h1") /\ UNCHANGED <<outsidePipeline, pipeline>>
    \/ Unregister("add") /\ UNCHANGED <<outsidePipeline, pipeline>>
    \/ \E t \in Tasks, req \in TaskRequests : TaskStart(t, req) /\ UNCHANGED outsidePipeline
    \/ \E t \in Tasks : TaskBefore(t) /\ UNCHANGED outsidePipeline
    \/ \E t \in Tasks : TaskDispatch(t) /\ UNCHANGED outsidePipeline
    \/ \E t \in Tasks : TaskHandlerDone(t) /\ UNCHANGED outsidePipeline
    \/ \E t \in Tasks : TaskOnError(t) /\ UNCHANGED outsidePipeline
    \/ \E t \in Tasks : TaskOnErrorOver(t) /\ UNCHANGED outsidePipeline
    \/ \E t \in Tasks : TaskAfter(t) /\ UNCHANGED outsidePipeline
    \/ \E t \in Tasks : TaskReturn(t) /\ UNCHANGED outsidePipeline

SpecPipeline == Init /\ [][PipelineNext]_vars

\* The place of an invocation in the pipeline: before hooks, then the handler,
\* then the on_error hooks, then the after hooks
Rank(name) ==
    CASE name = "before_call" -> 1
      [] name = "handler" -> 2
      [] name = "on_error" -> 3
      [] OTHER -> 4

\* The invocations of one run of call are in pipeline order
InPipelineOrder(k) ==
    LET c == k.c
        ev == c.events
    IN /\ \A a, b \in 1..Len(ev) : a < b => Rank(ev[a][1]) <= Rank(ev[b][1])
       /\ \A name \in {"before_call", "on_error", "after_call"} :
              HookOrder(c, name) = UpTo(Len(HookOrder(c, name)))
       /\ Len(HookOrder(c, "handler")) <= 1
       /\ \A j \in 1..Len(k.handed) :
              k.handed[j][1] = (IF j = 1 THEN c.orig ELSE k.handed[j - 1][2])
       /\ c.request = (IF k.handed = <<>> THEN c.orig ELSE k.handed[Len(k.handed)][2])
       /\ c.lookup # "none" =>
              /\ Len(k.handed) = k.chain
              /\ HookOrder(c, "before_call") = UpTo(k.chain)
       /\ Len(HookOrder(c, "after_call")) > 0 => c.handler # "none"

\* C16: for one request the stages never reorder, also when several calls are
\* suspended and resumed in turn: the before_call hooks run in registration
\* order, each on the request the hook before it returned, and all of them have
\* completed when the registry is looked up and the handler invoked; the handler
\* is invoked at most once; the after_call hooks run only once the handler has
\* finished.
C16_StagesInOrder ==
    \A t \in Tasks : tasks[t].c # NoCall => InPipelineOrder(tasks[t])

\* C16 witness: two calls in flight on a chain of two middlewares: one is
\* suspended in its handler, the other has run its first after_call hook
C16_Witness ==
    \E t, u \in Tasks :
        /\ tasks[t].pc = "handler"
        /\ HookOrder(tasks[t].c, "before_call") = <<1, 2>>
        /\ tasks[u].pc = "after"
        /\ HookOrder(tasks[u].c, "before_call") = <<1, 2>>
        /\ HookOrder(tasks[u].c, "after_call") = <<1>>

(***************************** RPCManager ************************************)
\* The services of the host application, the public methods of each
\* (RPCService.get_methods, lines 421-429) and the prefixes they go under
Services == {"A", "B"}
Prefixes == {"p", "q"}
GetMethods(service) == IF service = "A" THEN {"x", "y"} ELSE {"y", "z"}

\* f"{prefix}.{name}"
FullName(prefix, name) == <<prefix, ".", name>>

\* The names a service's methods get under a prefix
FullNames(prefix, service) == {FullName(prefix, name) : name \in GetMethods(service)}

\* RPCManager.register_service, lines 439-445: the service takes the prefix's
\* place in _services and each of its methods is registered (server.register,
\* insert or overwrite)
RegisterService(prefix, service) ==
    /\ services' = [x \in DOMAIN services \cup {prefix} |->
                       IF x = prefix THEN service ELSE services[x]]
    /\ methods' = [n \in DOMAIN methods \cup FullNames(prefix, service) |->
                      IF n \in FullNames(prefix, service)
                      THEN [name |-> n, handler |-> <<service, n[3]>>]
                      ELSE methods[n]]
    /\ returned' = [op |-> "register_service", prefix |-> prefix, service |-> service]
    /\ UNCHANGED <<middleware, handling>>

\* RPCManager.unregister_service, lines 447-458: False for a prefix that is not
\* in _services; else the methods of the service now under the prefix are
\* unregistered, the prefix is deleted and True is returned
UnregisterService(prefix) ==
    /\ IF prefix \notin DOMAIN services
       THEN /\ returned' = [op |-> "unregister_service", prefix |-> prefix,
                            known |-> FALSE, found |-> methods, ret |-> FALSE]
            /\ UNCHANGED <<services, methods>>
       ELSE /\ methods' = [n \in DOMAIN methods \ FullNames(prefix, services[prefix]) |->
                              methods[n]]
            /\ services' = [x \in DOMAIN services \ {prefix} |-> services[x]]
            /\ returned' = [op |-> "unregister_service", prefix |-> prefix,
                            known |-> TRUE, found |-> methods, ret |-> TRUE]
    /\ UNCHANGED <<middleware, handling>>

\* what a step of the manager leaves alone
outsideManager == <<history, locking, client, pipeline>>

ManagerNext ==
    \/ \E prefix \in Prefixes, service \in Services :
          RegisterService(prefix, service) /\ UNCHANGED outsideManager
    \/ \E prefix \in Prefixes : UnregisterService(prefix) /\ UNCHANGED outsideManager

SpecManager == Init /\ [][ManagerNext]_vars

\* C20: whenever unregister_service(prefix) returns true, no method registered
\* through register_service under that prefix is left in the server's registry,
\* also when register_service was called several times for the prefix with
\* different services; and unregister_service on a prefix that is not known
\* returns false and leaves the registry as it found it.
C20_UnregisterServiceRemovesAll ==
    returned.op = "unregister_service" =>
        /\ returned.ret = TRUE => \A n \in DOMAIN methods : n[1] # returned.prefix
        /\ ~returned.known => (returned.ret = FALSE /\ methods = returned.found)

====
